---- MODULE Spec2Model ----
(***************************************************************************)
(* Paged symbolic memory of the symbolic executor (memory/sym_memory.py):  *)
(* Page (lazy init, copy-on-write), Memory (mmap, store, load, copy,      *)
(* get_unmapped), and the handling of the current state and of the fringe  *)
(* by SymbolicExecutor (sym_executor.py).                                  *)
(*                                                                         *)
(* Symbolic expressions are modelled by their meaning: the executor has    *)
(* one symbolic variable X of the address width, an expression is the      *)
(* function from the value of X to the value of the expression, and the    *)
(* path constraints of a state are the set of values of X they allow.      *)
(***************************************************************************)
EXTENDS Integers, Sequences, FiniteSets, TLC

\* ------------------------------------------------------------------ bounds
IndexBits == 1
SlotBits == 4
MaxMem == 3
MaxPages == 3
MaxBytes == 2
MaxBlob == 3
MaxMapPages == 2
MaxStepsCow == 5
MaxStepsMap == 3
MaxStepsRW == 3
MaxStepsSym == 3
MaxRun == 3
MaxStepsHeu == 3
MaxStepsExec == 6
MaxIp == 1

\* ------------------------------------------------------- program constants
ByteBits == 8
MinBase == 65536

\* Memory.__init__: page_size (a power of two), index_bits, bits
PageSize == 2 ^ IndexBits
NumSlots == 2 ^ SlotBits
AddrSpace == PageSize * NumSlots
ByteBase == 2 ^ ByteBits

Offsets == 0 .. (PageSize - 1)
Assign == 0 .. (AddrSpace - 1)
ByteVals == {1, 2}
Endness == {"little", "big"}

Min(a, b) == IF a < b THEN a ELSE b

\* ------------------------------------------------------------ expressions
\* bvv(val, size): a concrete bitvector, the same under every value of X
Bvv(c) == [x \in Assign |-> c]

\* An address is a literal (sym = FALSE) or X + off (sym = TRUE), of width bits
ConcAddr(c) == [sym |-> FALSE, off |-> c % AddrSpace]
SymAddr(c) == [sym |-> TRUE, off |-> c % AddrSpace]
AddrVal(e, x) == IF e.sym THEN (x + e.off) % AddrSpace ELSE e.off
AddrAdd(e, k) == [e EXCEPT !.off = (@ + k) % AddrSpace]

\* split_bv(bv, index_bits): (most significant part, least significant part)
SplitBv(e) ==
    [page |-> [x \in Assign |-> AddrVal(e, x) \div PageSize],
     index |-> [x \in Assign |-> AddrVal(e, x) % PageSize]]

\* symbolic(val): the simplified expression is no literal
Symbolic(e) == e.sym

\* --------------------------------------------------------------- MemoryObj
\* the byte store of a page: offset -> byte, under every value of X
MemoryObj == [x \in Assign |-> [o \in Offsets |-> 0]]
MoStore(mo, index, value) == [x \in Assign |-> [mo[x] EXCEPT ![index[x]] = value[x]]]
MoLoad(mo, index) == [x \in Assign |-> mo[x][index[x]]]

\* -------------------------------------------------------------------- Page
NoInit == [some |-> FALSE, bytes |-> <<>>, index |-> 0]
InitData(bytes, index) == [some |-> TRUE, bytes |-> bytes, index |-> index]

Page(addr, init) == [addr |-> addr, mo |-> MemoryObj, init |-> init, lazycopy |-> FALSE]

\* the assertion of lazy_init: len(val) + index <= size
LazyInitOverflow(pg) == pg.init.some /\ Len(pg.init.bytes) + pg.init.index > PageSize

RECURSIVE LazyInitLoop(_, _, _, _)
LazyInitLoop(mo, start, val, i) ==
    IF i > Len(val) THEN mo
    ELSE LazyInitLoop(MoStore(mo, Bvv((start + i - 1) % PageSize), Bvv(val[i])), start, val, i + 1)

\* variant: lazy_init leaving the pending init data in place
LazyInitKeep(pg) ==
    IF pg.init.some
    THEN [pg EXCEPT !.mo = LazyInitLoop(pg.mo, pg.init.index, pg.init.bytes, 1)]
    ELSE pg

\* Page.lazy_init (when its assertion holds)
LazyInit(pg) ==
    IF pg.init.some
    THEN [pg EXCEPT !.mo = LazyInitLoop(pg.mo, pg.init.index, pg.init.bytes, 1),
                    !.init = NoInit]
    ELSE pg

\* variant: Page.store without the copy-on-write split
PageStoreInPlace(h, pid, index, value) ==
    LET h1 == [h EXCEPT ![pid] = LazyInit(h[pid])]
    IN  [heap |-> [h1 EXCEPT ![pid].mo = MoStore(@, index, value)], page |-> pid]

\* Page.store on heap object pid: the heap afterwards and the page that holds the write
PageStore(h, pid, index, value) ==
    LET h1 == [h EXCEPT ![pid] = LazyInit(h[pid])]
    IN  IF h1[pid].lazycopy
        THEN LET h2 == [h1 EXCEPT ![pid].lazycopy = FALSE]
                 np == [Page(h2[pid].addr, NoInit) EXCEPT !.mo = h2[pid].mo]
             IN  [heap |-> Append(h2, [np EXCEPT !.mo = MoStore(@, index, value)]),
                  page |-> Len(h2) + 1]
        ELSE [heap |-> [h1 EXCEPT ![pid].mo = MoStore(@, index, value)],
              page |-> pid]

\* Page.load on heap object pid
PageLoad(h, pid, index) ==
    LET h1 == [h EXCEPT ![pid] = LazyInit(h[pid])]
    IN  [heap |-> h1, val |-> MoLoad(h1[pid].mo, index)]

\* Page.copy
PageCopy(h, pid) == [h EXCEPT ![pid].lazycopy = TRUE]

\* ------------------------------------------------------------------ Memory
\* variant: the slice init_val[data_index_i :], without its upper bound
SliceOpen(s, i, f) == SubSeq(s, Min(i, Len(s)) + 1, Len(s))

\* init_val[data_index_i : data_index_f] for 0 <= i
Slice(s, i, f) == SubSeq(s, Min(i, Len(s)) + 1, Min(f, Len(s)))

\* variant: the loop of mmap keying the page table by byte address
RECURSIVE MmapLoopByteKeys(_, _, _, _, _, _, _, _)
MmapLoopByteKeys(h, pages, a, stop, initVal, initIndex, di, df) ==
    IF a >= stop THEN [heap |-> h, pages |-> pages]
    ELSE IF a * PageSize \notin DOMAIN pages
         THEN LET h1 == Append(h, Page(a, NoInit))
                  pages1 == [k \in (DOMAIN pages) \cup {a * PageSize} |->
                                IF k = a * PageSize THEN Len(h1) ELSE pages[k]]
              IN  MmapLoopByteKeys(h1, pages1, a + 1, stop, initVal, initIndex, di, df)
         ELSE MmapLoopByteKeys(h, pages, a + 1, stop, initVal, initIndex, di, df)

\* variant: the loop of mmap replacing the Page of a slot that is already mapped
RECURSIVE MmapLoopReplace(_, _, _, _, _, _, _, _)
MmapLoopReplace(h, pages, a, stop, initVal, initIndex, di, df) ==
    IF a >= stop THEN [heap |-> h, pages |-> pages]
    ELSE LET h1 == Append(h, Page(a, NoInit))
             pages1 == [k \in (DOMAIN pages) \cup {a} |-> IF k = a THEN Len(h1) ELSE pages[k]]
         IN  MmapLoopReplace(h1, pages1, a + 1, stop, initVal, initIndex, di, df)

\* the loop of Memory.mmap over the slots a .. stop - 1
RECURSIVE MmapLoop(_, _, _, _, _, _, _, _)
MmapLoop(h, pages, a, stop, initVal, initIndex, di, df) ==
    IF a >= stop THEN [heap |-> h, pages |-> pages]
    ELSE IF a \notin DOMAIN pages
         THEN LET initData == IF initIndex >= 0
                              THEN InitData(Slice(initVal, di, df), initIndex)
                              ELSE NoInit
                  h1 == Append(h, Page(a, initData))
                  pages1 == [k \in (DOMAIN pages) \cup {a} |->
                                IF k = a THEN Len(h1) ELSE pages[k]]
              IN  IF initIndex >= 0
                  THEN MmapLoop(h1, pages1, a + 1, stop, initVal, 0, df, df + PageSize)
                  ELSE MmapLoop(h1, pages1, a + 1, stop, initVal, initIndex, di, df)
         ELSE MmapLoop(h, pages, a + 1, stop, initVal, initIndex, di, df)

\* variant: mmap asserting the alignment of the address alone
MmapAlignedAddress(address, size) == address % PageSize = 0

\* the two assertions of Memory.mmap
MmapAligned(address, size) == address % PageSize = 0 /\ size % PageSize = 0

\* Memory.mmap(address, size, init): init.some = FALSE is init=None
MemMmap(h, pages, address, size, init) ==
    IF ~MmapAligned(address, size)
    THEN [heap |-> h, pages |-> pages, err |-> "AssertionError"]
    ELSE LET r == MmapLoop(h, pages, address \div PageSize,
                           address \div PageSize + size \div PageSize,
                           init.bytes, IF init.some THEN init.index ELSE -1,
                           0, PageSize - init.index)
         IN  [heap |-> r.heap, pages |-> r.pages, err |-> ""]

\* ------------------------------------------------------------------ Solver
\* The solver of a state, by the set feas of the values of X its path
\* constraints allow. f is an expression, S the set of values of X where a
\* condition holds.
SolverSymbolic(feas, f) == Cardinality({f[x] : x \in feas}) > 1
SolverEvaluateLong(feas, f) == CHOOSE v \in {f[x] : x \in feas} : TRUE
SolverSatisfiable(feas, S) == feas \cap S # {}
SolverAddConstraints(feas, S) == feas \cap S

\* ------------------------------------------------------------ Memory.store
NoConditions == [n |-> 0, sat |-> {}]

\* variant: _store materializing a page for a slot that is not mapped
MemStoreByteCreate(s, pageAddress, index, value) ==
    LET h0 == IF pageAddress \in DOMAIN s.pages THEN s.heap
              ELSE Append(s.heap, Page(pageAddress, NoInit))
        pages0 == [k \in (DOMAIN s.pages) \cup {pageAddress} |->
                      IF k \in DOMAIN s.pages THEN s.pages[k] ELSE Len(h0)]
        r == PageStore(h0, pages0[pageAddress], index, value)
    IN  [s EXCEPT !.heap = r.heap,
                  !.pages = [pages0 EXCEPT ![pageAddress] = r.page]]

\* Memory._store: the assertion, then Page.store and the page-table update.
\* s is the running state of the enclosing store.
\* self.pages[page_address] = r, r what Page.store returned
SetPage(s, pageAddress, r) ==
    [s EXCEPT !.heap = r.heap, !.pages[pageAddress] = r.page,
              !.split = @ \/ (r.page # s.pages[pageAddress])]

MemStoreByte(s, pageAddress, index, value) ==
    IF pageAddress \notin DOMAIN s.pages THEN [s EXCEPT !.err = "AssertionError"]
    ELSE IF LazyInitOverflow(s.heap[s.pages[pageAddress]]) THEN [s EXCEPT !.err = "AssertionError"]
    ELSE SetPage(s, pageAddress, PageStore(s.heap, s.pages[pageAddress], index, value))

\* the symbolic tier of store: for p in self.pages, in ascending slot order
RECURSIVE StoreSymLoop(_, _, _, _)
StoreSymLoop(s, todo, sp, value) ==
    IF todo = {} \/ s.err # "" THEN s
    ELSE LET p == CHOOSE q \in todo : \A r \in todo : q <= r
             eq == {x \in Assign : sp.page[x] = p}
         IN  IF SolverSatisfiable(s.feas, eq)
             THEN StoreSymLoop(
                      MemStoreByte([s EXCEPT !.conds = [n |-> @.n + 1, sat |-> @.sat \cup eq],
                                             !.symtier = TRUE],
                                   p, sp.index, value),
                      todo \ {p}, sp, value)
             ELSE StoreSymLoop(s, todo \ {p}, sp, value)

\* variant: the byte loop of store placing byte i at address + i whatever the endness
StoreIterLittle(s, addr, value, n, endness, i) ==
    LET sp == SplitBv(AddrAdd(addr, i))
        byte == Bvv((value \div (ByteBase ^ i)) % ByteBase)
    IN  MemStoreByte(s, sp.page[0], sp.index, byte)

\* variant: the byte loop of store placing byte i at address + n - i - 1
\* whatever the endness
StoreIterBig(s, addr, value, n, endness, i) ==
    LET sp == SplitBv(AddrAdd(addr, n - i - 1))
        byte == Bvv((value \div (ByteBase ^ i)) % ByteBase)
    IN  MemStoreByte(s, sp.page[0], sp.index, byte)

\* the end of an iteration of the byte loop of store: if conditions:
\* solver.add_constraints(Or(*conditions))
StoreConstrain(s) ==
    IF s.err = "" /\ s.conds.n > 0
    THEN [s EXCEPT !.feas = SolverAddConstraints(@, s.conds.sat)]
    ELSE s

\* the three tiers of store for the byte at the address e, split as sp
StoreTier(s, e, sp, byte) ==
    IF ~Symbolic(e)
    THEN MemStoreByte(s, sp.page[0], sp.index, byte)
    ELSE IF ~SolverSymbolic(s.feas, sp.page)
    THEN MemStoreByte(s, SolverEvaluateLong(s.feas, sp.page), sp.index, byte)
    ELSE StoreSymLoop([s EXCEPT !.conds = NoConditions], DOMAIN s.pages, sp, byte)

\* one iteration of the byte loop of store, for byte i of the value
StoreIter(s, addr, value, n, endness, i) ==
    StoreConstrain(
        StoreTier(s, AddrAdd(addr, IF endness = "little" THEN i ELSE n - i - 1),
                  SplitBv(AddrAdd(addr, IF endness = "little" THEN i ELSE n - i - 1)),
                  Bvv((value \div (ByteBase ^ i)) % ByteBase)))

RECURSIVE StoreLoop(_, _, _, _, _, _)
StoreLoop(s, addr, value, n, endness, i) ==
    IF i < 0 \/ s.err # "" THEN s
    ELSE StoreLoop(StoreIter(s, addr, value, n, endness, i), addr, value, n, endness, i - 1)

\* Memory.store(address, value, endness), value of n bytes, on the state st
MemStore(h, st, addr, value, n, endness) ==
    StoreLoop([heap |-> h, pages |-> st.pages, feas |-> st.feas, conds |-> NoConditions,
               err |-> "", split |-> FALSE, symtier |-> FALSE, mapped |-> 0],
              addr, value, n, endness, n - 1)

\* ------------------------------------------------------------- Memory.load
NoRes == [some |-> FALSE, size |-> 0, val |-> Bvv(0)]

\* z3.Concat(res, tmp), or tmp when res is None
Concat(res, tmp) ==
    IF res.some
    THEN [some |-> TRUE, size |-> res.size + 1,
          val |-> [x \in Assign |-> res.val[x] * ByteBase + tmp[x]]]
    ELSE [some |-> TRUE, size |-> 1, val |-> tmp]

\* z3.If(condition, tmp, res), or tmp when res is None
IfThenElse(cond, tmp, res) ==
    IF res.some
    THEN [res EXCEPT !.val = [x \in Assign |-> IF x \in cond THEN tmp[x] ELSE res.val[x]]]
    ELSE [some |-> TRUE, size |-> 1, val |-> tmp]

\* Memory._load: the assertion, then Page.load
\* tmp = r, r what Page.load returned
SetTmp(s, r) == [s EXCEPT !.heap = r.heap, !.tmp = r.val]

MemLoadByte(s, pageAddress, index) ==
    IF pageAddress \notin DOMAIN s.pages THEN [s EXCEPT !.err = "AssertionError"]
    ELSE IF LazyInitOverflow(s.heap[s.pages[pageAddress]]) THEN [s EXCEPT !.err = "AssertionError"]
    ELSE SetTmp(s, PageLoad(s.heap, s.pages[pageAddress], index))

\* the symbolic tier of load: for p in self.pages, in ascending slot order
\* conditions.append(condition); res = z3.If(condition, self._load(p,
\* page_index), res), s holding in tmp what _load returned; z3.If raises on
\* operands of different widths
LoadSymByte(s, eq) ==
    IF s.err # "" THEN s
    ELSE IF s.res.some /\ s.res.size # 1
    THEN [s EXCEPT !.err = "Z3Exception"]
    ELSE [s EXCEPT !.res = IfThenElse(eq, s.tmp, s.res),
                   !.conds = [n |-> @.n + 1, sat |-> @.sat \cup eq],
                   !.symtier = TRUE]

RECURSIVE LoadSymLoop(_, _, _)
LoadSymLoop(s, todo, sp) ==
    IF todo = {} \/ s.err # "" THEN s
    ELSE LET p == CHOOSE q \in todo : \A r \in todo : q <= r
             eq == {x \in Assign : sp.page[x] = p}
         IN  IF SolverSatisfiable(s.feas, eq)
             THEN LoadSymLoop(LoadSymByte(MemLoadByte(s, p, sp.index), eq), todo \ {p}, sp)
             ELSE LoadSymLoop(s, todo \ {p}, sp)

\* one iteration of the byte loop of load, for the byte at address + i
\* res = tmp if res is None else z3.Concat(res, tmp), s holding in tmp what
\* _load returned
LoadConcat(s) == IF s.err = "" THEN [s EXCEPT !.res = Concat(s.res, s.tmp)] ELSE s

\* the three tiers of load for the byte at the address e, split as sp
LoadTier(s, e, sp) ==
    IF ~Symbolic(e)
    THEN LoadConcat(MemLoadByte(s, sp.page[0], sp.index))
    ELSE IF ~SolverSymbolic(s.feas, sp.page)
    THEN LoadConcat(MemLoadByte(s, SolverEvaluateLong(s.feas, sp.page), sp.index))
    ELSE LoadSymLoop([s EXCEPT !.conds = NoConditions, !.symbytes = @ + 1],
                     DOMAIN s.pages, sp)

LoadIter(s, addr, i) == LoadTier(s, AddrAdd(addr, i), SplitBv(AddrAdd(addr, i)))

\* ran: size - 1 .. 0 for little, 0 .. size - 1 for big; k counts the iterations
RECURSIVE LoadLoop(_, _, _, _, _)
LoadLoop(s, addr, size, endness, k) ==
    IF k >= size \/ s.err # "" THEN s
    ELSE LoadLoop(LoadIter(s, addr, IF endness = "little" THEN size - 1 - k ELSE k),
                  addr, size, endness, k + 1)

\* Memory.copy: a fresh table over the same Page objects, each marked by Page.copy
RECURSIVE CopyLoop(_, _)
CopyLoop(h, todo) ==
    IF todo = {} THEN h
    ELSE LET pid == CHOOSE q \in todo : TRUE
         IN  CopyLoop(PageCopy(h, pid), todo \ {pid})

\* variant: Memory.copy returning a Memory with an empty page table
MemCopyEmpty(h, pages) ==
    [heap |-> CopyLoop(h, {pages[k] : k \in DOMAIN pages}), pages |-> <<>>,
     page_size |-> PageSize, bits |-> IndexBits + SlotBits]

\* Memory.copy: Memory(state, self.page_size, self.bits) with new_pages
MemCopy(h, pages) ==
    [heap |-> CopyLoop(h, {pages[k] : k \in DOMAIN pages}),
     pages |-> [k \in DOMAIN pages |-> pages[k]],
     page_size |-> PageSize, bits |-> IndexBits + SlotBits]

\* ------------------------------------------------------ Memory.get_unmapped
\* last_page = 2**(self.bits - self.index_bits) - 4
LastPage == NumSlots - 4

\* the while loop of get_unmapped over the page table with the keys `keys`
RECURSIVE UnmappedLoop(_, _, _, _, _, _)
UnmappedLoop(keys, size, fromEnd, i, j, count) ==
    IF j <= LastPage /\ count # size
    THEN IF i \notin keys
         THEN UnmappedLoop(keys, size, fromEnd, IF fromEnd THEN i - 1 ELSE i, j + 1, count + 1)
         ELSE UnmappedLoop(keys, size, fromEnd, IF fromEnd THEN i - 1 ELSE j + 1, j + 1, 0)
    ELSE i

\* Memory.get_unmapped(size, from_end)
GetUnmapped(keys, size, fromEnd) ==
    UnmappedLoop(keys, size, fromEnd, IF fromEnd THEN LastPage ELSE 2, 2, 0)

\* the end of load, s being the state the byte loop left: the errored state
\* forked if conditions is not empty, and the assertion on the width of res
LoadEnd(s, size) ==
    LET fork == s.err = "" /\ s.conds.n > 0
    IN  [heap |-> IF fork THEN MemCopy(s.heap, s.pages).heap ELSE s.heap,
         feas |-> IF fork THEN SolverAddConstraints(s.feas, s.conds.sat) ELSE s.feas,
         fork |-> fork,
         forkfeas |-> SolverAddConstraints(s.feas, Assign \ s.conds.sat),
         err |-> IF s.err # "" THEN s.err
                 ELSE IF ~s.res.some THEN "AttributeError"
                 ELSE IF s.res.size # size THEN "AssertionError"
                 ELSE "",
         res |-> s.res.val, symtier |-> s.symtier, symbytes |-> s.symbytes,
         conds |-> s.conds, pages |-> s.pages, mapped |-> 0]

MemLoad(h, st, addr, size, endness) ==
    LoadEnd(LoadLoop([heap |-> h, pages |-> st.pages, feas |-> st.feas, conds |-> NoConditions,
                      err |-> "", res |-> NoRes, tmp |-> Bvv(0), symtier |-> FALSE,
                      symbytes |-> 0],
                     addr, size, endness, 0),
            size)

\* ------------------------------------ heuristic concretization (load, store)
\* Solver.is_unconstrained: no path constraint restricts X
SolverIsUnconstrained(feas, e) == feas = Assign

\* heuristic_find_base: a concrete sub-term of the address above MIN_BASE, or -1
HeuristicFindBase(e) == IF e.sym /\ e.off > MinBase THEN e.off ELSE -1

\* the condition of the prologue of load and store, HEURISTIC_UNCONSTRAINED_MEM_ACCESS being on
HeuristicApplies(st, addr) ==
    Symbolic(addr) /\ SolverIsUnconstrained(st.feas, addr) /\ HeuristicFindBase(addr) = -1

\* self.mmap(address_conc, npages * page_size); add_constraints(address ==
\* address_conc); address = bvv(address_conc), r being what mmap did
Concretized(h, st, addr, base, r) ==
    [heap |-> r.heap,
     st |-> [pages |-> r.pages,
             feas |-> SolverAddConstraints(st.feas, {x \in Assign : AddrVal(addr, x) = base})],
     addr |-> ConcAddr(base), mapped |-> Len(r.heap) - Len(h)]

\* address_conc = self.get_unmapped(npages, False) * page_size, and the rest
ConcretizeAt(h, st, addr, npages, base) ==
    Concretized(h, st, addr, base, MemMmap(h, st.pages, base, npages * PageSize, NoInit))

\* the prologue of load and store with the heuristic on: what the rest of the
\* call works on
Concretize(h, st, addr, npages) ==
    IF HeuristicApplies(st, addr)
    THEN ConcretizeAt(h, st, addr, npages,
                      GetUnmapped(DOMAIN st.pages, npages, FALSE) * PageSize)
    ELSE [heap |-> h, st |-> st, addr |-> addr, mapped |-> 0]

\* the rest of load / store after the prologue left c
LoadAfter(c, size, endness) ==
    [MemLoad(c.heap, c.st, c.addr, size, endness) EXCEPT !.mapped = c.mapped]
StoreAfter(c, value, n, endness) ==
    [MemStore(c.heap, c.st, c.addr, value, n, endness) EXCEPT !.mapped = c.mapped]

\* Memory.load and Memory.store with HEURISTIC_UNCONSTRAINED_MEM_ACCESS on:
\* the region is size // page_size + 1 pages, size being the bytes of a load
\* and value.size(), the bits, of a store
MemLoadHeuristic(h, st, addr, size, endness) ==
    LoadAfter(Concretize(h, st, addr, size \div PageSize + 1), size, endness)
MemStoreHeuristic(h, st, addr, value, n, endness) ==
    StoreAfter(Concretize(h, st, addr, (ByteBits * n) \div PageSize + 1), value, n, endness)

\* -------------------------------------------------------- SymbolicExecutor
\* The executor: state is the current state (a state number, NoState for
\* None), deferred and exited the lists of the fringe, ips the instruction
\* pointer of every state, ip the executor's own; pc, old_ip and single say
\* where execute_one is: outside a call or in its while loop.
NoState == 0
NoneRes == -2
NoMoreStates == -1
Ips == 0 .. MaxIp
Hooks == {"none", "state", "nostate"}
Outcomes == {"ok", "exit", "error", "fatal", "crash"}

NoExec == [state |-> 1, deferred |-> <<>>, exited |-> <<>>, ips |-> <<0>>, ip |-> 0,
           pc |-> "idle", old_ip |-> 0, single |-> FALSE]

RemoveAt(q, j) == SubSeq(q, 1, j - 1) \o SubSeq(q, j + 1, Len(q))

\* Fringe: is_empty, add_deferred, add_exited, add_errored, get_one_deferred
FringeIsEmpty(e) == e.deferred = <<>>
PutInDeferred(e, s) == [e EXCEPT !.deferred = Append(@, s)]
PutInExited(e, s) == [e EXCEPT !.exited = Append(@, s)]
PutInErrored(errs, s, msg) == Append(errs, [state |-> s, msg |-> msg])
GetOneDeferred(e, pick) == 1 + (pick % Len(e.deferred))

\* set_current_state(state)
SetCurrentState(e, s) ==
    IF e.state # NoState
    THEN [PutInDeferred(e, e.state) EXCEPT !.state = s, !.ip = e.ips[s]]
    ELSE [e EXCEPT !.state = s, !.ip = e.ips[s]]

\* select_from_deferred(), pick saying which deferred state the fringe gives
SelectFromDeferred(e, pick) ==
    IF FringeIsEmpty(e) THEN e
    ELSE SetCurrentState([e EXCEPT !.deferred = RemoveAt(@, GetOneDeferred(e, pick))],
                         e.deferred[GetOneDeferred(e, pick)])

\* update_ip
UpdateIp(e, newip) == [e EXCEPT !.ip = newip, !.ips[e.state] = newip]

\* a state forked by the instruction or by a hook and put in deferred
ForkDeferred(e) == PutInDeferred([e EXCEPT !.ips = Append(@, e.ip)], Len(e.ips) + 1)

\* variant: the ExitException handler leaving the state current
OnExitKeep(e, errs) == [e |-> PutInExited(e, e.state), errs |-> errs]

\* the handlers of _execute_one: except ExitException, except SENinjaError
OnExit(e, errs) == [e |-> [PutInExited(e, e.state) EXCEPT !.state = NoState], errs |-> errs]
OnError(e, errs) ==
    [e |-> [e EXCEPT !.state = NoState], errs |-> PutInErrored(errs, e.state, "error")]

\* _execute_one from `if self.state is None` to its return
ExecuteTail(x, newip, pick) ==
    IF x.e.state = NoState
    THEN IF FringeIsEmpty(x.e)
         THEN [e |-> x.e, errs |-> x.errs, ret |-> NoMoreStates, raised |-> ""]
         ELSE [e |-> SelectFromDeferred(x.e, pick), errs |-> x.errs,
               ret |-> SelectFromDeferred(x.e, pick).ip, raised |-> ""]
    ELSE [e |-> UpdateIp(x.e, newip), errs |-> x.errs, ret |-> newip, raised |-> ""]

\* _execute_one with the state e of the executor, forks already made: hook is
\* what a user hook at the ip returned (none: no hook there), outcome what
\* the instruction did, newip the ip after a completed instruction
ExecuteOneStep(e, errs, hook, outcome, newip, pick) ==
    IF hook = "state"
    THEN [e |-> UpdateIp(e, newip), errs |-> errs, ret |-> newip, raised |-> ""]
    ELSE IF hook = "nostate" \/ outcome = "ok"
    THEN ExecuteTail([e |-> e, errs |-> errs], newip, pick)
    ELSE IF outcome = "exit" THEN ExecuteTail(OnExit(e, errs), newip, pick)
    ELSE IF outcome = "error" THEN ExecuteTail(OnError(e, errs), newip, pick)
    ELSE IF outcome = "fatal"
    THEN [e |-> OnError(e, errs).e, errs |-> OnError(e, errs).errs,
          ret |-> NoneRes, raised |-> "SENinjaError"]
    ELSE [e |-> e, errs |-> errs, ret |-> NoneRes, raised |-> "Exception"]

\* execute_one: the exception handlers around _execute_one
ExecuteCatch(x) ==
    IF x.raised = "Exception"
    THEN [x EXCEPT !.e.state = NoState,
                   !.errs = PutInErrored(x.errs, x.e.state, "Unknown error")]
    ELSE x

\* execute_one after its loop: if res is None, select_from_deferred
ExecuteEnd(x, pick) ==
    IF x.ret = NoneRes
    THEN [x EXCEPT !.e = [SelectFromDeferred(x.e, pick) EXCEPT !.pc = "idle"]]
    ELSE [x EXCEPT !.e.pc = "idle"]

\* one turn of the loop of execute_one: _execute_one, then either the loop
\* goes on (res == old_ip) or execute_one ends
ExecuteTurn(e, x, pick) ==
    IF x.raised = "" /\ ~e.single /\ x.ret = e.old_ip
    THEN x
    ELSE ExecuteEnd(ExecuteCatch(x), pick)

\* ------------------------------------------------------------------- state
\* heap: the Page objects, by identity; mems: the execution states, each with
\* the page table of its Memory and the path constraints of its solver;
\* errored: executor.fringe.errored; steps: the number of calls made;
\* last: the last call, its outcome and what it was observed to change;
\* exec: the executor (current state, fringe, instruction pointers)
VARIABLES heap, mems, errored, last, steps, exec

vars == <<heap, mems, errored, last, steps, exec>>

Addresses == 0 .. (AddrSpace - 1)

\* what Memory._load returns for the byte at address a: Page.load of the page
\* of a, or no value when the page is unmapped
ViewByte(h, pages, a) ==
    IF a \div PageSize \notin DOMAIN pages THEN Bvv(-1)
    ELSE IF LazyInitOverflow(h[pages[a \div PageSize]]) THEN Bvv(-2)
    ELSE PageLoad(h, pages[a \div PageSize], Bvv(a % PageSize)).val

ViewAddrs(pages) == {k * PageSize + o : k \in DOMAIN pages, o \in Offsets}

\* the bytes (state, address) of the states before the call that a call changed
Changed(h1, ms1, h2, ms2) ==
    {ma \in UNION {{<<m, a>> : a \in ViewAddrs(ms1[m].pages) \cup ViewAddrs(ms2[m].pages)} :
                      m \in 1 .. Len(ms1)} :
        ViewByte(h1, ms1[ma[1]].pages, ma[2]) # ViewByte(h2, ms2[ma[1]].pages, ma[2])}

\* the bytes (address, value of X) of the state m that a call changed under
\* that value of X
Written(h1, pages1, h2, pages2) ==
    {ax \in ViewAddrs(pages1) \X Assign :
        ViewByte(h1, pages1, ax[1])[ax[2]] # ViewByte(h2, pages2, ax[1])[ax[2]]}

NoAddr == [sym |-> FALSE, off |-> 0]
NoCall == [op |-> "init", m |-> 0, err |-> "", addr |-> NoAddr, size |-> 0, endness |-> "",
           value |-> 0, res |-> Bvv(0), fork |-> FALSE, changed |-> {}, keys |-> {},
           feas |-> {}, nerr |-> 0, nmem |-> 0, tables |-> <<>>,
           fromEnd |-> FALSE, ret |-> 0, mapped |-> 0, written |-> {},
           page_size |-> 0, bits |-> 0, outcome |-> "", deferred |-> <<>>, aligned |-> TRUE, range |-> {}, disturbed |-> {}, misplaced |-> {}]

Init ==
    /\ heap = <<>>
    /\ mems = <<[pages |-> <<>>, feas |-> Assign]>>
    /\ errored = <<>>
    /\ last = NoCall
    /\ steps = 0
    /\ exec = NoExec

\* the states the executor may run: all but the errored ones
Live == {m \in 1 .. Len(mems) : \A k \in 1 .. Len(errored) : errored[k].state # m}

\* the preload blob of n bytes: blob[j] is 255 - j, unlike any stored byte
Blob(n) == [j \in 1 .. n |-> ByteBase - j]

\* the value whose byte k (k = 0 least significant) is bs[k + 1]
RECURSIVE ValOf(_)
ValOf(bs) == IF bs = <<>> THEN 0 ELSE bs[1] + ByteBase * ValOf(Tail(bs))
Values(n) == {ValOf(bs) : bs \in [1 .. n -> ByteVals]}

\* the state after M.mmap(address, size, init) in the state m, r being what
\* the call did
MmapDone(m, address, size, init, r) ==
    LET ms == [mems EXCEPT ![m].pages = r.pages]
        old == mems[m].pages
        aligned == address % PageSize = 0 /\ size % PageSize = 0
        range == IF aligned
                 THEN {k \in 0 .. (address + size) : address <= k * PageSize
                                                      /\ k * PageSize < address + size}
                 ELSE {}
    IN  /\ Len(r.heap) <= MaxPages
        /\ heap' = r.heap
        /\ mems' = ms
        /\ last' = [NoCall EXCEPT
               !.op = "mmap", !.m = m, !.err = r.err, !.keys = DOMAIN old,
               !.nmem = Len(mems),
               !.tables = [k \in 1 .. Len(mems) |-> DOMAIN mems[k].pages],
               !.changed = Changed(heap, mems, r.heap, ms),
               !.aligned = aligned, !.range = range,
               !.disturbed = {k \in DOMAIN old :
                                 \/ k \notin DOMAIN r.pages
                                 \/ r.pages[k] # old[k]
                                 \/ r.heap[old[k]] # heap[old[k]]},
               !.misplaced = {kj \in (DOMAIN r.pages \ DOMAIN old) \X (1 .. Len(init.bytes)) :
                                 /\ init.some
                                 /\ (address + init.index + kj[2] - 1) \div PageSize = kj[1]
                                 /\ ViewByte(r.heap, r.pages, address + init.index + kj[2] - 1)
                                        # Bvv(init.bytes[kj[2]])}]
        /\ steps' = steps + 1
        /\ UNCHANGED exec
        /\ UNCHANGED errored

Mmap(m, address, size, init) ==
    MmapDone(m, address, size, init, MemMmap(heap, mems[m].pages, address, size, init))

\* variant: a store that, like load, forks an errored state when its symbolic
\* tier found consistent pages
StoreDoneForking(m, addr, value, n, endness, r) ==
    LET ms == [mems EXCEPT ![m] = [pages |-> r.pages, feas |-> r.feas]]
        fork == r.err = "" /\ r.conds.n > 0
    IN  /\ Len(r.heap) <= MaxPages + r.mapped
        /\ fork => Len(mems) < MaxMem
        /\ heap' = r.heap
        /\ mems' = IF fork
                   THEN Append(ms, [pages |-> r.pages, feas |-> mems[m].feas \ r.conds.sat])
                   ELSE ms
        /\ errored' = IF fork
                      THEN Append(errored, [state |-> Len(mems) + 1, msg |-> "write unmapped"])
                      ELSE errored
        /\ last' = [NoCall EXCEPT
               !.op = "store", !.m = m, !.err = r.err, !.mapped = r.mapped, !.addr = addr, !.size = n,
               !.endness = endness, !.value = value, !.keys = DOMAIN mems[m].pages,
               !.feas = mems[m].feas, !.nerr = Len(errored),
               !.nmem = Len(mems),
               !.tables = [k \in 1 .. Len(mems) |-> DOMAIN mems[k].pages],
               !.changed = Changed(heap, mems, r.heap, ms),
               !.written = Written(heap, mems[m].pages, r.heap, r.pages)]
        /\ steps' = steps + 1
        /\ UNCHANGED exec

\* the state after M.store(addr, value, endness) in the state m, r being what
\* the call did
StoreDone(m, addr, value, n, endness, r) ==
    LET ms == [mems EXCEPT ![m] = [pages |-> r.pages, feas |-> r.feas]]
    IN  /\ Len(r.heap) <= MaxPages + r.mapped
        /\ heap' = r.heap
        /\ mems' = ms
        /\ last' = [NoCall EXCEPT
               !.op = "store", !.m = m, !.err = r.err, !.mapped = r.mapped, !.addr = addr, !.size = n,
               !.endness = endness, !.value = value, !.keys = DOMAIN mems[m].pages,
               !.feas = mems[m].feas, !.nerr = Len(errored),
               !.nmem = Len(mems),
               !.tables = [k \in 1 .. Len(mems) |-> DOMAIN mems[k].pages],
               !.changed = Changed(heap, mems, r.heap, ms),
               !.written = Written(heap, mems[m].pages, r.heap, r.pages)]
        /\ steps' = steps + 1
        /\ UNCHANGED exec
        /\ UNCHANGED errored

Store(m, addr, value, n, endness) ==
    StoreDone(m, addr, value, n, endness, MemStore(heap, mems[m], addr, value, n, endness))

\* the state after M.load(addr, size, endness) in the state m, r being what
\* the call did
LoadDone(m, addr, size, endness, r) ==
    LET ms == [mems EXCEPT ![m] = [pages |-> r.pages, feas |-> r.feas]]
    IN  /\ r.fork => Len(mems) < MaxMem
        /\ heap' = r.heap
        /\ mems' = IF r.fork
                   THEN Append(ms, [pages |-> r.pages, feas |-> r.forkfeas])
                   ELSE ms
        /\ errored' = IF r.fork
                      THEN Append(errored, [state |-> Len(mems) + 1, msg |-> "read unmapped"])
                      ELSE errored
        /\ last' = [NoCall EXCEPT
               !.op = "load", !.m = m, !.err = r.err, !.addr = addr, !.size = size,
               !.mapped = r.mapped,
               !.endness = endness, !.res = r.res, !.fork = r.fork,
               !.keys = DOMAIN mems[m].pages, !.feas = mems[m].feas,
               !.nerr = Len(errored), !.changed = Changed(heap, mems, r.heap, ms),
               !.nmem = Len(mems),
               !.tables = [k \in 1 .. Len(mems) |-> DOMAIN mems[k].pages]]
        /\ steps' = steps + 1
        /\ UNCHANGED exec

Load(m, addr, size, endness) ==
    LoadDone(m, addr, size, endness, MemLoad(heap, mems[m], addr, size, endness))

\* the state after State.copy of the state m, r being what Memory.copy did
CopyDone(m, r) ==
    /\ Len(mems) < MaxMem
    /\ heap' = r.heap
    /\ mems' = Append(mems, [pages |-> r.pages, feas |-> mems[m].feas])
    /\ last' = [NoCall EXCEPT !.op = "copy", !.m = m, !.keys = DOMAIN mems[m].pages,
                              !.nmem = Len(mems),
                              !.tables = [k \in 1 .. Len(mems) |-> DOMAIN mems[k].pages],
                              !.page_size = r.page_size, !.bits = r.bits,
                              !.changed = Changed(heap, mems, r.heap, mems)]
    /\ steps' = steps + 1
    /\ UNCHANGED exec
    /\ UNCHANGED errored

\* load and store with HEURISTIC_UNCONSTRAINED_MEM_ACCESS on
LoadHeuristic(m, addr, size, endness) ==
    LoadDone(m, addr, size, endness, MemLoadHeuristic(heap, mems[m], addr, size, endness))
StoreHeuristic(m, addr, value, n, endness) ==
    StoreDone(m, addr, value, n, endness,
              MemStoreHeuristic(heap, mems[m], addr, value, n, endness))

\* State.copy of the state m: Memory.copy and a copy of the path constraints
Copy(m) == CopyDone(m, MemCopy(heap, mems[m].pages))

\* the executor takes a branch in the state m: solver.add_constraints of a
\* condition that holds for the values S of X and leaves the state satisfiable
Constrain(m, S) ==
    /\ SolverAddConstraints(mems[m].feas, S) \notin {{}, mems[m].feas}
    /\ mems' = [mems EXCEPT ![m].feas = SolverAddConstraints(@, S)]
    /\ last' = [NoCall EXCEPT !.op = "constrain", !.m = m, !.keys = DOMAIN mems[m].pages,
                              !.feas = mems[m].feas, !.nerr = Len(errored)]
    /\ steps' = steps + 1
    /\ UNCHANGED exec
    /\ UNCHANGED <<heap, errored>>

\* M.get_unmapped(size, from_end) in the state m: the table is only read
Unmapped(m, size, fromEnd) ==
    /\ last' = [NoCall EXCEPT !.op = "get_unmapped", !.m = m, !.size = size,
                              !.fromEnd = fromEnd, !.keys = DOMAIN mems[m].pages,
                              !.ret = GetUnmapped(DOMAIN mems[m].pages, size, fromEnd)]
    /\ steps' = steps + 1
    /\ UNCHANGED exec
    /\ UNCHANGED <<heap, mems, errored>>

\* the calls, with their arguments drawn from the given sets
UnmappedCall(sizes) ==
    \E m \in Live, size \in sizes, fromEnd \in BOOLEAN : Unmapped(m, size, fromEnd)

MmapCall(addresses, sizes, inits) ==
    \E m \in Live, address \in addresses, size \in sizes, init \in inits :
        Mmap(m, address, size, init)

StoreCall(addrs, sizes, ends) ==
    \E m \in Live, addr \in addrs, n \in sizes, endness \in ends :
        \E value \in Values(n) : Store(m, addr, value, n, endness)

LoadCall(addrs, sizes, ends) ==
    \E m \in Live, addr \in addrs, n \in sizes, endness \in ends :
        Load(m, addr, n, endness)

CopyCall == \E m \in Live : Copy(m)

LoadHeuristicCall(addrs, sizes, ends) ==
    \E m \in Live, addr \in addrs, n \in sizes, endness \in ends :
        LoadHeuristic(m, addr, n, endness)

StoreHeuristicCall(addrs, sizes, ends) ==
    \E m \in Live, addr \in addrs, n \in sizes, endness \in ends :
        \E value \in Values(n) : StoreHeuristic(m, addr, value, n, endness)

ConstrainCall(conds) == \E m \in Live, S \in conds : Constrain(m, S)

\* execute_one() up to its loop: nothing without a current state
ExecuteOne(single) ==
    /\ exec.pc = "idle"
    /\ exec' = IF exec.state = NoState THEN exec
               ELSE [exec EXCEPT !.pc = "loop", !.old_ip = exec.ip, !.single = single]
    /\ last' = [NoCall EXCEPT !.op = "execute_one", !.m = exec.state,
                              !.deferred = exec.deferred, !.nerr = Len(errored),
                              !.nmem = Len(mems)]
    /\ steps' = steps + 1
    /\ UNCHANGED <<heap, mems, errored>>

\* the state after one turn of the loop of execute_one on the current state
\* cur: e0 is the executor after the forks of the instruction, x what
\* _execute_one and the end of execute_one did
ExecuteDone(cur, hook, outcome, fork, e0, x) ==
    /\ exec' = x.e
    /\ errored' = x.errs
    /\ mems' = IF fork THEN Append(mems, mems[cur]) ELSE mems
    /\ heap' = IF fork THEN MemCopy(heap, mems[cur].pages).heap ELSE heap
    /\ last' = [NoCall EXCEPT !.op = "_execute_one", !.m = cur,
                              !.outcome = IF hook = "none" THEN outcome ELSE "hook",
                              !.deferred = e0.deferred, !.ret = x.ret, !.err = x.raised,
                              !.nerr = Len(errored), !.nmem = Len(mems)]
    /\ steps' = steps + 1

ExecuteWith(hook, outcome, fork, newip, pick, e0) ==
    ExecuteDone(exec.state, hook, outcome, fork, e0,
                ExecuteTurn(e0, ExecuteOneStep(e0, errored, hook, outcome, newip, pick), pick))

\* one turn of the loop of execute_one
ExecuteOneLoop(hook, outcome, fork, newip, pick) ==
    /\ exec.pc = "loop"
    /\ hook # "none" => outcome = "ok"
    /\ fork => Len(mems) < MaxMem
    /\ ExecuteWith(hook, outcome, fork, newip, pick, IF fork THEN ForkDeferred(exec) ELSE exec)

\* select_from_deferred() called between two instructions
SelectCall(pick) ==
    /\ exec.pc = "idle"
    /\ exec' = SelectFromDeferred(exec, pick)
    /\ last' = [NoCall EXCEPT !.op = "select_from_deferred", !.m = exec.state,
                              !.deferred = exec.deferred, !.nerr = Len(errored),
                              !.nmem = Len(mems)]
    /\ steps' = steps + 1
    /\ UNCHANGED <<heap, mems, errored>>

\* ---------------------------------------------------------- specifications
\* Forking: one page and an unmapped address, single-byte accesses, copies of copies
CowInits == {NoInit, InitData(Blob(PageSize), 0)}
CowAddrs == {ConcAddr(a) : a \in 0 .. PageSize}

CowMmap == steps < MaxStepsCow /\ MmapCall({0}, {PageSize}, CowInits)
CowStore == steps < MaxStepsCow /\ StoreCall(CowAddrs, {1}, {"big"})
CowLoad == steps < MaxStepsCow /\ LoadCall(CowAddrs, {1}, {"big"})
CowCopy == steps < MaxStepsCow /\ CopyCall

NextCow == CowMmap \/ CowStore \/ CowLoad \/ CowCopy

SpecCow == Init /\ [][NextCow]_vars

\* Mapping: aligned and misaligned addresses and sizes, preloads that fit a
\* page or spill over, remaps, with single-byte accesses and forks between
MapAddrs == {0, 1, PageSize}
MapSizes == {0, 1} \cup {k * PageSize : k \in 1 .. MaxMapPages}
MapInits == {NoInit} \cup {InitData(Blob(n), i) : n \in {1, MaxBlob}, i \in Offsets}

MapMmap == steps < MaxStepsMap /\ MmapCall(MapAddrs, MapSizes, MapInits)
MapStore == steps < MaxStepsMap /\ StoreCall(CowAddrs, {1}, {"big"})
MapLoad == steps < MaxStepsMap /\ LoadCall(CowAddrs, {1}, {"big"})
MapCopy == steps < MaxStepsMap /\ CopyCall

NextMap == MapMmap \/ MapStore \/ MapLoad \/ MapCopy

SpecMap == Init /\ [][NextMap]_vars

\* Concrete accesses of every width and endianness, in one Memory: at the
\* start, the end and across the boundary of a page, and across the end of
\* the address space
RWAddrs == {ConcAddr(a) : a \in {0, PageSize - 1, PageSize, AddrSpace - 1}}
RWPages == {0, PageSize, 2 * PageSize, AddrSpace - PageSize}

RWMmap == steps < MaxStepsRW /\ MmapCall(RWPages, {PageSize, 2 * PageSize}, {NoInit})
RWStore == steps < MaxStepsRW /\ StoreCall(RWAddrs, 1 .. MaxBytes, Endness)
RWLoad == steps < MaxStepsRW /\ LoadCall(RWAddrs, 1 .. MaxBytes, Endness)

NextRW == RWMmap \/ RWStore \/ RWLoad

SpecRW == Init /\ [][NextRW]_vars

\* Symbolic accesses: X and X + 1 as addresses, under path constraints that
\* leave X one or two values among the addresses of the first four slots, in
\* a Memory of single mapped pages among these slots.
\* HEURISTIC_UNCONSTRAINED_MEM_ACCESS is off.
SymAddrs == {SymAddr(0), SymAddr(1), ConcAddr(0), ConcAddr(PageSize - 1)}
SymVals == 0 .. (4 * PageSize - 1)
SymPages == {a \in SymVals : a % PageSize = 0}
SymConds == {{a, b} : a \in {0, 1}, b \in SymVals}

SymMmap == steps < MaxStepsSym /\ MmapCall(SymPages, {PageSize}, {NoInit})
SymConstrain == steps < MaxStepsSym /\ ConstrainCall(SymConds)
SymStore == steps < MaxStepsSym /\ StoreCall(SymAddrs, 1 .. MaxBytes, Endness)
SymLoad == steps < MaxStepsSym /\ LoadCall(SymAddrs, 1 .. MaxBytes, Endness)

\* Searches for unmapped slots: one Memory with any set of the slots 1 ..
\* last_page + 1 mapped page by page, and runs of 1 .. MaxRun slots asked for
\* in both directions
RECURSIVE MapSlots(_, _)
MapSlots(r, todo) ==
    IF todo = {} THEN r
    ELSE LET k == CHOOSE q \in todo : \A o \in todo : q <= o
         IN  MapSlots(MemMmap(r.heap, r.pages, k * PageSize, PageSize, NoInit), todo \ {k})

UnmSlots == 1 .. (LastPage + 1)

InitUnm ==
    /\ \E K \in SUBSET UnmSlots :
           /\ heap = MapSlots([heap |-> <<>>, pages |-> <<>>], K).heap
           /\ mems = <<[pages |-> MapSlots([heap |-> <<>>, pages |-> <<>>], K).pages,
                        feas |-> Assign]>>
    /\ errored = <<>>
    /\ last = NoCall
    /\ steps = 0
    /\ exec = NoExec

UnmUnmapped == steps < 1 /\ UnmappedCall(1 .. MaxRun)

NextUnm == UnmUnmapped

SpecUnm == InitUnm /\ [][NextUnm]_vars

\* Heuristic concretization: HEURISTIC_UNCONSTRAINED_MEM_ACCESS is on; X and
\* X + 1 as addresses, constrained or not, pages among slots 2 .. 4
HeuPages == {k * PageSize : k \in 2 .. 4}
HeuAddrs == {SymAddr(0), SymAddr(1)}

HeuMmap == steps < MaxStepsHeu /\ MmapCall(HeuPages, {PageSize}, {NoInit})
HeuConstrain == steps < MaxStepsHeu /\ ConstrainCall(SymConds)
HeuStore == steps < MaxStepsHeu /\ StoreHeuristicCall(HeuAddrs, {1}, {"big"})
HeuLoad == steps < MaxStepsHeu /\ LoadHeuristicCall(HeuAddrs, 1 .. MaxBytes, Endness)

NextHeu == HeuMmap \/ HeuConstrain \/ HeuStore \/ HeuLoad

SpecHeu == Init /\ [][NextHeu]_vars

NextSym == SymMmap \/ SymConstrain \/ SymStore \/ SymLoad

SpecSym == Init /\ [][NextSym]_vars

\* The executor: instructions that complete, fork, exit, fail or crash, hooks,
\* and calls of select_from_deferred between them
ExecExecuteOne == steps < MaxStepsExec /\ \E single \in BOOLEAN : ExecuteOne(single)
ExecExecuteOneLoop ==
    /\ steps < MaxStepsExec
    /\ \E hook \in Hooks, outcome \in Outcomes, fork \in BOOLEAN, newip \in Ips,
          pick \in 0 .. (MaxMem - 1) :
           ExecuteOneLoop(hook, outcome, fork, newip, pick)
ExecSelect == steps < MaxStepsExec /\ \E pick \in 0 .. (MaxMem - 1) : SelectCall(pick)

NextExec == ExecExecuteOne \/ ExecExecuteOneLoop \/ ExecSelect

SpecExec == Init /\ [][NextExec]_vars

\* ------------------------------------------------------------------ claims
\* C1: with one fork (M and M2 = M.copy() the only Memory instances), a store
\* into either Memory leaves what load returns in the other unchanged, at
\* every address.
C1_OneForkIsolation ==
    (last.op = "store" /\ Len(mems) = 2) => \A ma \in last.changed : ma[1] = last.m

\* C1 witness: mmap, copy, a store of 2 into M2 and then a store of 1 into M
\* at the same address, each Memory reading its own byte.
C1_Witness ==
    /\ steps = 4 /\ Len(mems) = 2 /\ last.op = "store" /\ last.m = 1 /\ last.err = ""
    /\ \E a \in Addresses :
          /\ ViewByte(heap, mems[1].pages, a) = Bvv(1)
          /\ ViewByte(heap, mems[2].pages, a) = Bvv(2)

\* C2: in any fork tree, a store into one Memory never changes what load
\* returns in any other Memory.
C2_ForkTreeIsolation ==
    last.op = "store" => \A ma \in last.changed : ma[1] = last.m

\* the slots of the bytes address .. address + n - 1, addresses being of width bits
SlotsOf(addr, n) == {((addr.off + k) % AddrSpace) \div PageSize : k \in 0 .. (n - 1)}

\* C3: a store of a value of 1 .. page_size bytes at a concrete address all of
\* whose bytes lie in mapped pages succeeds, and a load of the same address,
\* size and endness then returns the value.
C3_RoundTrip ==
    (/\ last.op = "store" /\ ~last.addr.sym /\ last.size <= PageSize
     /\ SlotsOf(last.addr, last.size) \subseteq last.keys)
    => /\ last.err = ""
       /\ LET r == MemLoad(heap, mems[last.m], last.addr, last.size, last.endness)
          IN  r.err = "" /\ r.res = Bvv(last.value)

\* C3 witness: a big-endian store of two different bytes that straddles two
\* mapped pages
C3_Witness ==
    /\ last.op = "store" /\ last.err = "" /\ last.size = 2 /\ last.endness = "big"
    /\ last.addr.off % PageSize = PageSize - 1
    /\ Cardinality(SlotsOf(last.addr, 2)) = 2
    /\ SlotsOf(last.addr, 2) \subseteq last.keys
    /\ last.value = ValOf(<<1, 2>>)

\* the page table of the Memory the last call was made on
LastPages == mems[last.m].pages

\* C5 (as the claim states it): every key of the page table is divisible by
\* page_size.
C5_KeysPageAligned ==
    \A m \in 1 .. Len(mems) : \A k \in DOMAIN mems[m].pages : k % PageSize = 0

\* C5 (amended): every key k of a page table is a slot index, address //
\* page_size: the Page under k has addr = k, and the keys an mmap adds are
\* the k with address <= k * page_size < address + size.
C5_KeysAreSlotIndices ==
    /\ \A m \in 1 .. Len(mems) : \A k \in DOMAIN mems[m].pages :
          heap[mems[m].pages[k]].addr = k
    /\ last.op = "mmap" => DOMAIN LastPages = last.keys \cup last.range

\* C5 witness: an mmap has created a key that page_size does not divide
C5_Witness ==
    /\ last.op = "mmap" /\ last.err = ""
    /\ \E k \in DOMAIN LastPages \ last.keys : k % PageSize # 0

\* C6: an mmap over a range with a slot already mapped does not raise, leaves
\* every mapped slot with the same Page object, unchanged in byte content,
\* pending init data and COW flag, and maps the other slots of the range.
C6_RemapNoOp ==
    (last.op = "mmap" /\ last.aligned /\ last.range \cap last.keys # {})
    => /\ last.err = ""
       /\ last.disturbed = {}
       /\ \A ma \in last.changed : ma[1] = last.m /\ ma[2] \div PageSize \notin last.keys
       /\ last.range \subseteq DOMAIN LastPages

\* C6 witness: a range with one slot mapped, its Page shared with a fork (COW
\* flag set), and one slot not mapped
C6_Witness ==
    /\ last.op = "mmap" /\ last.aligned
    /\ last.range \ last.keys # {}
    /\ \E k \in last.range \cap last.keys : heap[LastPages[k]].lazycopy

\* C7: an mmap with a misaligned address or size fails its assertion and
\* leaves the page table and every Page of it as they were.
C7_MisalignedFails ==
    (last.op = "mmap" /\ ~last.aligned)
    => /\ last.err = "AssertionError"
       /\ DOMAIN LastPages = last.keys
       /\ last.disturbed = {}
       /\ last.changed = {}

\* C7 witness: a misaligned mmap on a Memory that has pages
C7_Witness == last.op = "mmap" /\ ~last.aligned /\ last.keys # {}

\* C8: after an mmap with preload (blob, idx), every byte blob[j] whose
\* address, address + idx + j, lies in a page this call created is what a
\* load of that address returns.
C8_PreloadPlacement == (last.op = "mmap" /\ last.err = "") => last.misplaced = {}

\* C9: lazy init is one-shot. Pending init data is only ever on a Page whose
\* byte store was never written; a load or store clears the pending data of
\* the page it touches; a load or a copy changes no byte any Memory reads; a
\* one-byte store changes no byte but the one at its address, which then
\* reads as the stored byte, not the blob byte.
C9_LazyInitOneShot ==
    /\ \A pid \in 1 .. Len(heap) : heap[pid].init.some => heap[pid].mo = MemoryObj
    /\ (last.op \in {"load", "store"} /\ last.err = "" /\ last.size = 1)
       => ~heap[LastPages[last.addr.off \div PageSize]].init.some
    /\ last.op \in {"load", "copy"} => last.changed = {}
    /\ (last.op = "store" /\ last.err = "" /\ last.size = 1)
       => /\ ViewByte(heap, LastPages, last.addr.off) = Bvv(last.value)
          /\ \A ma \in last.changed : ma[2] = last.addr.off

\* C9 witness: a page mapped with a preload and shared with a fork; this
\* Memory stored 1 over blob byte 0 (splitting the page) and loads 1 back,
\* blob byte 1 is in place, and the fork still reads blob byte 0.
C9_Witness ==
    /\ last.op = "load" /\ last.err = "" /\ last.addr = ConcAddr(0) /\ last.res = Bvv(1)
    /\ ViewByte(heap, LastPages, 1) = Bvv(Blob(2)[2])
    /\ \E m2 \in 1 .. Len(mems) :
          /\ 0 \in DOMAIN mems[m2].pages
          /\ mems[m2].pages[0] # LastPages[0]
          /\ ViewByte(heap, mems[m2].pages, 0) = Bvv(Blob(2)[1])
\* the slots the byte at address + k of the last load or store may lie in,
\* under the path constraints before the call
CallSlots(k) == {SplitBv(AddrAdd(last.addr, k)).page[x] : x \in last.feas}
CallBytes == 0 .. (last.size - 1)
\* the byte is resolved by tier 1 (no symbol in the address) or tier 2 (one
\* slot under the path constraints)
ConcreteByte(k) == ~last.addr.sym \/ Cardinality(CallSlots(k)) = 1
\* the byte is resolved by the symbolic tier, with these consistent mapped slots
SymbolicByte(k) == ~ConcreteByte(k)
Consistent(k) == CallSlots(k) \cap last.keys
ConcreteUnmapped(k) == ConcreteByte(k) /\ CallSlots(k) \cap last.keys = {}

\* C4: no load or store adds or removes a key of a page table (heuristic
\* concretization off), and a load or store with a byte whose page address
\* resolves to a concrete value (tier 1 or tier 2) that is not a mapped slot
\* fails, by the assertion of _load / _store when that byte is the first one
\* of the area, instead of materializing a page.
C4_OnlyMmapCreatesPages ==
    last.op \in {"load", "store"} =>
        /\ \A m \in 1 .. Len(mems) :
               DOMAIN mems[m].pages = IF m <= last.nmem
                                      THEN last.tables[m] ELSE last.keys
        /\ (\E k \in CallBytes : ConcreteUnmapped(k)) => last.err # ""
        /\ (\A k \in CallBytes : ConcreteUnmapped(k)) => last.err = "AssertionError"

\* C4 witness: a store through a symbolic address that the path constraints
\* pin to one slot (tier 2), the slot not being mapped while another is, has
\* failed on the assertion
C4_Witness ==
    /\ last.op = "store" /\ last.addr.sym /\ Cardinality(last.feas) >= 2
    /\ last.keys # {}
    /\ \A k \in CallBytes : ConcreteUnmapped(k)
    /\ last.err = "AssertionError"

\* C10: a load no byte of which is concrete and unmapped, and that resolves a
\* byte in the symbolic tier with at least one consistent mapped page, appends
\* exactly one errored-state record, tagged "read unmapped", whose path
\* condition is the one before the load plus the negation of the disjunction
\* of the page equalities of such a byte; a load resolved entirely by tier 1
\* or tier 2 appends none.
C10_LoadForksOnce ==
    (last.op = "load" /\ \A k \in CallBytes : ~ConcreteUnmapped(k)) =>
        /\ (\E k \in CallBytes : SymbolicByte(k) /\ Consistent(k) # {}) =>
               /\ Len(errored) = last.nerr + 1
               /\ errored[Len(errored)].msg = "read unmapped"
               /\ \E k \in CallBytes :
                      /\ SymbolicByte(k) /\ Consistent(k) # {}
                      /\ mems[errored[Len(errored)].state].feas =
                             {x \in last.feas :
                                 SplitBv(AddrAdd(last.addr, k)).page[x] \notin last.keys}
        /\ (\A k \in CallBytes : ConcreteByte(k)) => Len(errored) = last.nerr

\* the byte loop of the last load or store ran to its end: no _load / _store
\* assertion and no z3 exception (a load may still have failed the assertion
\* on the width of res, which comes after the constraints are added)
LoopCompleted ==
    /\ \A k \in CallBytes : ~ConcreteUnmapped(k)
    /\ \/ last.err = ""
       \/ last.op = "load" /\ last.err = "AssertionError"

\* the values of X, among those the path constraints allowed before the
\* call, for which the byte at address + k lies in a mapped page
Pinned(k) == {x \in last.feas : SplitBv(AddrAdd(last.addr, k)).page[x] \in last.keys}

\* C11: after a load or store whose byte loop completed, for every byte
\* resolved in the symbolic tier with a consistent mapped page the path
\* constraints of the current state imply the disjunction of the page
\* equalities (the page address is pinned to a mapped page), and a call
\* resolved by tiers 1 and 2 alone leaves the path constraints as they were.
C11_Narrowing ==
    (last.op \in {"load", "store"} /\ LoopCompleted) =>
        /\ \A k \in CallBytes :
               (SymbolicByte(k) /\ Consistent(k) # {}) => mems[last.m].feas \subseteq Pinned(k)
        /\ (\A k \in CallBytes : ConcreteByte(k)) => mems[last.m].feas = last.feas

\* the byte the Memory of the last call holds at address + k when X is x
ByteAt(k, x) == ViewByte(heap, LastPages, AddrVal(AddrAdd(last.addr, k), x))[x]

\* the value of the bytes at address .. address + size - 1 when X is x, the
\* byte at address the least significant for little, the most for big
RECURSIVE ValueAt(_, _)
ValueAt(k, x) ==
    IF k >= last.size THEN 0
    ELSE ByteAt(k, x) * ByteBase ^ (IF last.endness = "little" THEN k ELSE last.size - 1 - k)
         + ValueAt(k + 1, x)

\* C12: a load of any size >= 1 all of whose bytes are resolved in the
\* symbolic tier with a consistent mapped page completes without an
\* exception, and under every value of X that puts all its bytes in mapped
\* pages the result is the bytes stored there, concatenated per the endness.
C12_SymbolicLoadValue ==
    (/\ last.op = "load"
     /\ \A k \in CallBytes : SymbolicByte(k) /\ Consistent(k) # {})
    => /\ last.err = ""
       /\ \A x \in last.feas :
              (\A k \in CallBytes : x \in Pinned(k)) => last.res[x] = ValueAt(0, x)

\* C13: a load all of whose bytes are resolved in the symbolic tier with no
\* consistent mapped page (the page table may be empty) raises no exception.
C13_NoConsistentPageNoRaise ==
    (/\ last.op = "load"
     /\ \A k \in CallBytes : SymbolicByte(k) /\ Consistent(k) = {})
    => last.err = ""

\* the range get_unmapped scans, its free slots in the table of the last
\* call, the starts of the runs of `size` free slots in it, and the region
\* the caller maps from the returned slot
Scanned == 2 .. LastPage
FreeSlots == Scanned \ last.keys
RunStarts == {g \in Scanned : \A k \in g .. (g + last.size - 1) : k \in FreeSlots}
Region == last.ret .. (last.ret + last.size - 1)

\* C14: get_unmapped(size, from_end=True) on a table whose scanned range has
\* one gap, of exactly `size` free slots, returns the lowest slot of the gap,
\* so that the region of `size` pages from it has no mapped slot.
C14_FromEndReturnsGapStart ==
    (/\ last.op = "get_unmapped" /\ last.fromEnd
     /\ \E g \in Scanned : FreeSlots = g .. (g + last.size - 1))
    => /\ FreeSlots = Region
       /\ Region \cap last.keys = {}

\* C18: get_unmapped(size, from_end=False), when the scanned range has a run
\* of `size` consecutive free slots, returns a slot s with none of s .. s +
\* size - 1 in the page table.
C18_ForwardReturnsFreeRun ==
    (last.op = "get_unmapped" /\ ~last.fromEnd /\ RunStarts # {})
    => Region \cap last.keys = {}

\* C19: when the scanned range has no run of `size` consecutive free slots,
\* what get_unmapped returns (in either direction) is not a slot whose
\* region holds a mapped slot or a reserved slot above last_page.
C19_NoFitIsNotAFit ==
    (last.op = "get_unmapped" /\ RunStarts = {})
    => /\ Region \cap last.keys = {}
       /\ \A k \in Region : k <= LastPage

\* the last call was a load or store that the heuristic concretized; the
\* pages of its region; the addresses its path constraints leave the address
HeuristicCall ==
    last.op \in {"load", "store"} /\ HeuristicApplies([feas |-> last.feas], last.addr)
HeuristicPages ==
    (IF last.op = "load" THEN last.size ELSE ByteBits * last.size) \div PageSize + 1
PinnedAddrs == {AddrVal(last.addr, x) : x \in mems[last.m].feas}

\* a second load, of the same address, size and endness, in the state the
\* last call left
LoadAgain == MemLoadHeuristic(heap, mems[last.m], last.addr, last.size, last.endness)

\* C15: with the heuristic on, a load or store at a symbolic, unconstrained
\* address with no concrete base leaves the address equal to a page-aligned
\* base, with the pages of the region from that base all mapped and none of
\* them mapped before the call; a load of the same address afterwards maps
\* no page, forks no errored state, and after a load returns the same value.
C15_HeuristicConcretization ==
    HeuristicCall =>
        /\ last.err = ""
        /\ \E base \in Addresses :
               /\ base % PageSize = 0
               /\ PinnedAddrs = {base}
               /\ \A k \in (base \div PageSize) .. (base \div PageSize + HeuristicPages - 1) :
                      k \in DOMAIN LastPages /\ k \notin last.keys
        /\ LoadAgain.err = "" /\ LoadAgain.mapped = 0 /\ ~LoadAgain.fork
        /\ DOMAIN LoadAgain.pages = DOMAIN LastPages
        /\ last.op = "load" => \A x \in mems[last.m].feas : LoadAgain.res[x] = last.res[x]

\* C16: in the symbolic tier of store the write into each consistent mapped
\* page p is conditional on page_address == p: under every value of X that the
\* path constraints allow after the store and for which no byte of the stored
\* area has its page address equal to p, the bytes of p are what they were
\* before the store.
C16_StoreIsConditional ==
    (last.op = "store" /\ last.err = "" /\ \E k \in CallBytes : SymbolicByte(k)) =>
        \A ax \in last.written :
            ax[2] \in mems[last.m].feas =>
                \E k \in CallBytes :
                    SplitBv(AddrAdd(last.addr, k)).page[ax[2]] = ax[1] \div PageSize

\* C17: no store, in any resolution tier and whatever the number of mapped
\* pages consistent with its address, appends an errored state or forks a
\* state: the errored-state collection and the set of states are as they were
\* before the store.
C17_StoreNeverForks ==
    last.op = "store" => Len(errored) = last.nerr /\ Len(mems) = last.nmem

\* C17 witness: a store resolved by the symbolic tier with two consistent
\* mapped pages has succeeded and left the errored states as they were
C17_Witness ==
    /\ last.op = "store" /\ last.err = ""
    /\ \E k \in CallBytes : SymbolicByte(k) /\ Cardinality(Consistent(k)) >= 2
    /\ Len(errored) = last.nerr

\* the address of byte k (0 the least significant) of the value of the last
\* store, and that byte
PlaceOf(k) ==
    AddrVal(AddrAdd(last.addr, IF last.endness = "little" THEN k ELSE last.size - 1 - k), 0)
ByteOf(k) == (last.value \div (ByteBase ^ k)) % ByteBase
\* the byte at in-page offset a & (page_size - 1) of the page of slot
\* a >> offset_bits of the state of the last call
StoredAt(a) == heap[LastPages[a \div PageSize]].mo[0][a % PageSize]

\* C20: a store of an n-byte value at the concrete address A that succeeds
\* leaves byte k of the value (k = 0 the least significant) at A + k for
\* little-endian and at A + n - 1 - k for big-endian, in the page of slot
\* (A + offset) >> offset_bits at in-page offset (A + offset) & (page_size - 1);
\* and a store at a concrete address, failed or not, changes no byte of any
\* state outside the n bytes from A of its own state.
C20_BytePlacement ==
    (last.op = "store" /\ ~last.addr.sym) =>
        /\ last.err = "" =>
               \A k \in CallBytes :
                   /\ PlaceOf(k) \div PageSize \in DOMAIN LastPages
                   /\ StoredAt(PlaceOf(k)) = ByteOf(k)
                   /\ ViewByte(heap, LastPages, PlaceOf(k)) = Bvv(ByteOf(k))
        /\ \A ma \in last.changed :
               ma[1] = last.m /\ \E k \in CallBytes : ma[2] = PlaceOf(k)

\* C20 witness: a big-endian store of two different bytes across a page
\* boundary has succeeded and changed both bytes
C20_Witness ==
    /\ last.op = "store" /\ last.err = "" /\ last.endness = "big"
    /\ last.addr = ConcAddr(PageSize - 1) /\ last.size = 2
    /\ ByteOf(0) # ByteOf(1)
    /\ last.changed = {<<last.m, PageSize - 1>>, <<last.m, PageSize>>}

\* C21: Memory.copy returns a Memory with the page_size and the address bits
\* of the source and a page table with exactly the keys of the source, leaves
\* the keys of every existing Memory and every byte that a load reads in them
\* as they were; and an mmap, in the source, in the copy or in any other
\* Memory, changes the keys of that Memory only.
C21_CopyFreshTable ==
    /\ last.op = "copy" =>
           /\ Len(mems) = last.nmem + 1
           /\ last.page_size = PageSize /\ last.bits = IndexBits + SlotBits
           /\ DOMAIN mems[Len(mems)].pages = last.keys
           /\ \A k \in 1 .. last.nmem : DOMAIN mems[k].pages = last.tables[k]
           /\ last.changed = {}
    /\ last.op = "mmap" =>
           /\ Len(mems) = last.nmem
           /\ \A k \in (1 .. Len(mems)) \ {last.m} : DOMAIN mems[k].pages = last.tables[k]

\* C21 witness: after a copy of a Memory with a mapped page, an mmap in one of
\* the two has added a key that the other does not have
C21_Witness ==
    /\ last.op = "mmap" /\ last.err = "" /\ Len(mems) = 2
    /\ last.keys # {}
    /\ last.keys \subseteq DOMAIN mems[3 - last.m].pages
    /\ DOMAIN LastPages \ last.keys # {}
    /\ DOMAIN mems[3 - last.m].pages = last.tables[3 - last.m]
    /\ DOMAIN LastPages # DOMAIN mems[3 - last.m].pages

\* C22: a multi-byte store at a concrete address that fails the mapped-page
\* assertion of _store, one of its bytes lying in an unmapped slot, leaves
\* every byte of every mapped page and the keys of the page table as they were
\* before the call.
C22_NoPartialWrite ==
    (/\ last.op = "store" /\ ~last.addr.sym /\ last.size >= 2
     /\ last.err = "AssertionError"
     /\ \E k \in CallBytes : ConcreteUnmapped(k))
    => /\ last.changed = {}
       /\ DOMAIN LastPages = last.keys

\* how many times the state s is in the list q / is recorded in errored
CountIn(q, s) == Cardinality({j \in 1 .. Len(q) : q[j] = s})
CountErrored(s) == Cardinality({j \in 1 .. Len(errored) : errored[j].state = s})
\* the places the state s is held in: current, deferred, exited, errored
Places(s) ==
    (IF exec.state = s THEN 1 ELSE 0) + CountIn(exec.deferred, s)
        + CountIn(exec.exited, s) + CountErrored(s)
Raising == last.op = "_execute_one" /\ last.outcome \in {"exit", "error", "fatal"}

\* C23: after an instruction of the current state s raised ExitException or
\* SENinjaError, s is recorded once in exited, respectively errored, and is
\* nowhere else: not current, not deferred; the current state is then one of
\* the states that were deferred when the fringe was not empty, and None
\* otherwise, _execute_one having returned -1 unless the error was fatal. And
\* a current state replaced by set_current_state is in deferred afterwards:
\* at every moment every state is held in exactly one place.
C23_RaisingStateRecordedOnce ==
    /\ Raising =>
           /\ exec.state # last.m
           /\ CountIn(exec.deferred, last.m) = 0
           /\ CountIn(exec.exited, last.m) = (IF last.outcome = "exit" THEN 1 ELSE 0)
           /\ CountErrored(last.m) = (IF last.outcome = "exit" THEN 0 ELSE 1)
           /\ Len(errored) = last.nerr + (IF last.outcome = "exit" THEN 0 ELSE 1)
           /\ IF last.deferred # <<>>
              THEN /\ CountIn(last.deferred, exec.state) = 1
                   /\ CountIn(exec.deferred, exec.state) = 0
                   /\ Len(exec.deferred) = Len(last.deferred) - 1
              ELSE /\ exec.state = NoState
                   /\ last.outcome # "fatal" => last.ret = NoMoreStates
    /\ (last.op = "select_from_deferred" /\ last.m # NoState) =>
           IF last.deferred # <<>>
           THEN /\ CountIn(exec.deferred, last.m) = 1
                /\ CountIn(last.deferred, exec.state) = 1
           ELSE exec.state = last.m
    /\ last.op \in {"execute_one", "_execute_one", "select_from_deferred"} =>
           \A s \in 1 .. Len(mems) : Places(s) = 1

\* C23 witness: a state has exited while two states were deferred, and one of
\* these is now the current state
C23_Witness ==
    /\ Raising /\ last.outcome = "exit"
    /\ Len(last.deferred) = 2
    /\ exec.state # NoState
    /\ CountIn(exec.exited, last.m) = 1

\* the Pages with init data not yet copied into their byte store
PendingPages == {pid \in 1 .. Len(heap) : heap[pid].init.some}

\* C24: the assertion of lazy_init, len(val) + index <= size, holds of every
\* Page in every reachable state: mmap, with 0 <= init.index < page_size and
\* whatever the blob, the size of the region and the slots already mapped,
\* gives no Page init data that overflows it.
C24_LazyInitNeverOverflows ==
    \A pid \in PendingPages :
        /\ ~LazyInitOverflow(heap[pid])
        /\ heap[pid].init.index \in Offsets

\* C24 witness: an mmap in a Memory with a slot already mapped has created
\* two Pages from a blob longer than a page that starts inside the first: the
\* first Page filled to its end, the second with what is left
C24_Witness ==
    /\ last.op = "mmap" /\ last.err = "" /\ last.keys # {}
    /\ \E p, q \in PendingPages :
           /\ heap[p].addr \notin last.keys /\ heap[q].addr \notin last.keys
           /\ heap[p].addr < heap[q].addr
           /\ heap[p].init.index > 0
           /\ Len(heap[p].init.bytes) + heap[p].init.index = PageSize
           /\ heap[q].init.index = 0 /\ Len(heap[q].init.bytes) > 0

====
